---- MODULE Spec2Model ----
(***************************************************************************)
(* Py-Sort (src/py_sort.py): the move-log based file organizer.            *)
(*                                                                         *)
(* One directory D is organized.  The state is the content of D (the files *)
(* directly inside it, its category folders and their files), the move log *)
(* <D>/py_sort_moves.json, and the position of the running command         *)
(* (organize_files or undo_organization) with its local variables.  A      *)
(* command blocks at every filesystem attempt and at every prompt; these   *)
(* are the steps of the model, and the outcome of an attempt and the       *)
(* operator's answer are the inputs of the step.                           *)
(***************************************************************************)
EXTENDS Integers, Sequences, FiniteSets, TLC

\* ------------------------------------------------------------------ bounds
\* Commands run one after the other on the directory.
MaxRuns == 3
\* Environment failures (a failing mkdir, move, stat or log write) per command.
MaxFails == 2

\* ------------------------------------------------------------- file names
\* The names of the plain files that may lie directly in D.  "Images" has no
\* suffix and is also the name of a category folder.
Names == {"a.PNG", "b.txt", "Images"}

\* The two files the program itself keeps: the move log, in D, and the error
\* log that logging.basicConfig opens in the working directory.
LogNames == {"py_sort.log", "py_sort_moves.json"}

\* pathlib's PurePath.suffix of the names above.
Suffix(name) ==
  CASE name = "a.PNG" -> ".PNG"
    [] name = "b.txt" -> ".txt"
    [] name = "py_sort.log" -> ".log"
    [] name = "py_sort_moves.json" -> ".json"
    [] OTHER -> ""

\* str.lower() on the suffixes above.
Lower(s) == IF s = ".PNG" THEN ".png" ELSE s

get_file_extension(name) == Lower(Suffix(name))

\* ------------------------------------------------------------------ rules
\* A rule mapping is a dict, iterated in insertion order: a sequence of items.
DefaultRules ==
  << [folder |-> "Images", exts |-> {".jpg", ".png"}],
     [folder |-> "Documents", exts |-> {".pdf", ".txt", ".log"}],
     [folder |-> "Code", exts |-> {".py", ".json"}] >>

\* A config.json whose lists overlap: ".png" is in two lists.
CustomRules ==
  << [folder |-> "Documents", exts |-> {".png", ".txt"}],
     [folder |-> "Images", exts |-> {".png"}] >>

RuleSets == {DefaultRules, CustomRules}

Cats == {"Images", "Documents", "Code", "Other"}

\* A lookup in which the last list that holds the extension wins.
FindLast(file_extension, sorting_rules, i) ==
  LET hits == {j \in i..Len(sorting_rules) : file_extension \in sorting_rules[j].exts}
  IN IF hits = {} THEN "Other"
     ELSE sorting_rules[CHOOSE j \in hits : \A k \in hits : k <= j].folder

\* for folder_name, extensions in sorting_rules.items(): from item i on.
RECURSIVE FindFrom(_, _, _)
FindFrom(file_extension, sorting_rules, i) ==
  IF i > Len(sorting_rules) THEN "Other"
  ELSE IF file_extension \in sorting_rules[i].exts THEN sorting_rules[i].folder
  ELSE FindFrom(file_extension, sorting_rules, i + 1)

find_target_folder(file_extension, sorting_rules) ==
  FindFrom(file_extension, sorting_rules, 1)

\* ------------------------------------------------------------------ paths
\* A pathlib.Path below the organized directory: whether it is absolute, and
\* its parts after the directory argument.  Path(".") / "Images" / "a.PNG" is
\* the relative path "Images/a.PNG"; nothing in the program resolves it.
DirArgs == {".", "/data/inbox"}

PathOf(directory_path) == [abs |-> directory_path # ".", parts |-> <<>>]

Join(p, s) == [p EXCEPT !.parts = Append(@, s)]

is_absolute(p) == p.abs

NoPath == [abs |-> FALSE, parts |-> <<"-">>]

\* ------------------------------------------------------------- filesystem
\* Every file has an identity: its name and where it lay at the start.
None == <<>>
Ids == {<<n, w>> : n \in Names, w \in {"root", "sub", "moved"}}
RootPaths == {<<n>> : n \in Names}
SubPaths == {<<c, n>> : c \in Cats, n \in Names}
Paths == RootPaths \cup SubPaths

VARIABLES
  fs,                \* Paths -> the file at that place of D, or None
  dirs,              \* the category folders of D that exist (directories)
  logFile,           \* the content of <D>/py_sort_moves.json
  config,            \* the rule mapping config.json holds
  clock,             \* datetime.now(), advanced once per command
  pc,                \* the position of the running command
  directory,         \* Path(directory_path) of the running command
  dry_run,
  sorting_rules,
  files_to_organize,
  moves,             \* undo_organization: the loaded log
  idx,               \* files (records) of the loop already finished
  moved_count,
  skipped_count,
  restored_count,
  fails,             \* environment failures in the running command
  last,              \* the report of the running or last command
  files0             \* the files D held at the start

vars == << fs, dirs, logFile, config, clock, pc, directory, dry_run, sorting_rules,
           files_to_organize, moves, idx, moved_count, skipped_count,
           restored_count, fails, last, files0 >>

disk == << fs, dirs, logFile, config >>

\* Path.exists() of a path below D, given by its parts.
PathExists(parts) ==
  CASE Len(parts) = 0 -> TRUE
    [] Len(parts) = 1 -> parts[1] \in dirs \/ (parts \in Paths /\ fs[parts] # None)
    [] OTHER -> parts \in Paths /\ fs[parts] # None

\* shutil.move(src, dst) of a plain file to a free place can succeed only when
\* the parent of dst is a directory.
ParentIsDir(parts) == Len(parts) = 1 \/ parts[1] \in dirs

Moved(f, src, dst) == [f EXCEPT ![dst] = f[src], ![src] = None]

\* ---------------------------------------------------------------- the log
\* An element of the JSON array: an object with the three keys of a move
\* record, or something that is not an object (a string, a number).
NonObject == [type |-> "string", timestamp |-> 0, original |-> NoPath, new |-> NoPath]

Missing == [kind |-> "missing", moves |-> <<>>]
NotJson == [kind |-> "notjson", moves |-> <<>>]
NotList == [kind |-> "notlist", moves |-> <<>>]
JsonList(ms) == [kind |-> "list", moves |-> ms]

IsDict(m) == m.type = "object"

\* A JSON value that is not a string (a number, null, a list) where a record
\* should hold a path: Path() raises TypeError for it.
NotAString == [abs |-> FALSE, parts |-> <<"<number>">>]

\* log_move up to the append: the list the new record is appended to.
LoadedMoves(lf) == IF lf.kind = "list" THEN lf.moves ELSE <<>>

WriteOutcomes == {"ok", "open_fails", "dump_fails"}

\* A log_move that puts the new record first.
log_move_prepends(lf, ts, original_path, new_path, w) ==
  CASE w = "ok" -> JsonList(<<[type |-> "object", timestamp |-> ts,
                              original |-> original_path, new |-> new_path]>>
                            \o LoadedMoves(lf))
    [] w = "open_fails" -> lf
    [] OTHER -> NotJson

\* A log_move that leaves a log it cannot parse as it is.
log_move_gives_up(lf, ts, original_path, new_path, w) ==
  IF lf.kind = "notjson"
    THEN lf
    ELSE CASE w = "ok" -> JsonList(Append(LoadedMoves(lf),
                                          [type |-> "object", timestamp |-> ts,
                                           original |-> original_path, new |-> new_path]))
           [] w = "open_fails" -> lf
           [] OTHER -> NotJson

\* log_move: the content of the log file afterwards.  open(log_file, 'w')
\* truncates the file before json.dump writes.
log_move(lf, ts, original_path, new_path, w) ==
  LET appended == Append(LoadedMoves(lf),
                         [type |-> "object", timestamp |-> ts,
                          original |-> original_path, new |-> new_path])
  IN CASE w = "ok" -> JsonList(appended)
       [] w = "open_fails" -> lf
       [] OTHER -> NotJson

\* ------------------------------------------------------------------- Init
DefaultTarget(n) == find_target_folder(get_file_extension(n), DefaultRules)

\* How a name lies in D at the start.  "absent"; "root": a plain file of D;
\* "both": a plain file of D, while another file of the same name lies in its
\* category folder; "again": an earlier organize run with an absolute directory
\* argument has moved the file to its category folder and logged the move, and
\* a new file of the same name has appeared in D since.
InitStates(n) ==
  IF n = "a.PNG" THEN {"absent", "root", "both", "again"} ELSE {"absent", "root"}

InitFs(st) ==
  [p \in Paths |->
     IF Len(p) = 1
       THEN IF st[p[1]] = "absent" THEN None ELSE <<p[1], "root">>
       ELSE IF p[1] = DefaultTarget(p[2]) /\ st[p[2]] \in {"both", "again"}
              THEN <<p[2], IF st[p[2]] = "both" THEN "sub" ELSE "moved">>
              ELSE None]

\* The record the earlier run has logged for name n.
EarlierRecord(n) ==
  [type |-> "object", timestamp |-> 0,
   original |-> Join(PathOf("/data/inbox"), n),
   new |-> Join(Join(PathOf("/data/inbox"), DefaultTarget(n)), n)]

\* The log at the start: none, not JSON, JSON but no array, an empty array, an
\* array with an element that is no object, or the log of the earlier run.
InitLogs(st) ==
  IF \E n \in Names : st[n] = "again"
    THEN {JsonList(<<EarlierRecord(CHOOSE n \in Names : st[n] = "again")>>)}
    ELSE {Missing, NotJson, NotList, JsonList(<<>>), JsonList(<<NonObject>>)}

\* The reports of the commands: see last below.
NoAfter == [kind |-> "other", done |-> 0, skipped |-> 0, failed |-> FALSE]

After(e) ==
  IF e.op = "organize" /\ e.result = "summary" /\ e.dry
    THEN [kind |-> "dry", done |-> e.done, skipped |-> e.skipped, failed |-> e.failed]
  ELSE IF /\ e.op = "organize" /\ e.result = "summary" /\ ~e.dry
          /\ e.clean /\ ~e.failed /\ e.done = e.n
    THEN [kind |-> "cleanrun", done |-> 0, skipped |-> 0, failed |-> FALSE]
  ELSE IF e.op = "undo" /\ e.result = "summary" /\ e.done = e.n
    THEN [kind |-> "fullundo", done |-> 0, skipped |-> 0, failed |-> FALSE]
  ELSE NoAfter

NoReport ==
  [op |-> "none", result |-> "none", abs |-> FALSE, dry |-> FALSE, n |-> 0,
   done |-> 0, skipped |-> 0, failed |-> FALSE, clean |-> FALSE, confirmed |-> FALSE,
   after |-> NoAfter]

Idle ==
  /\ pc = "idle"
  /\ directory = NoPath
  /\ dry_run = FALSE
  /\ sorting_rules = <<>>
  /\ files_to_organize = <<>>
  /\ moves = <<>>
  /\ idx = 0
  /\ moved_count = 0
  /\ skipped_count = 0
  /\ restored_count = 0
  /\ fails = 0

Init ==
  /\ \E st \in {t \in [Names -> {"absent", "root", "both", "again"}] :
                   \A n \in Names : t[n] \in InitStates(n)} :
       /\ fs = InitFs(st)
       /\ dirs = {DefaultTarget(n) : n \in {m \in Names : st[m] \in {"both", "again"}}}
       \* a name is a file or a folder, never both
       /\ \A c \in dirs : <<c>> \in Paths => fs[<<c>>] = None
       /\ logFile \in InitLogs(st)
  /\ config \in RuleSets
  /\ clock = 0
  /\ Idle
  /\ last = NoReport
  /\ files0 = {fs[p] : p \in {q \in Paths : fs[q] # None}}

\* ------------------------------------------------------- finished commands
\* D holds plain files only: no category folder, no file below one, no log.
Clean ==
  /\ dirs = {}
  /\ \A p \in SubPaths : fs[p] = None
  /\ logFile = Missing

\* last is the report of the running command or, between two commands, of the
\* one that has returned: how it was started, what it printed, and in after
\* what the command before it had reported, as far as a later one depends on it:
\* the counts of a dry run, that a real run on a clean directory moved every
\* file and logged every move, or that an undo restored every record.  failed: some attempt of the command failed or
\* raised.  confirmed: the operator has answered 'y' to the prompt of undo.
Started(op, directory_path, dry) ==
  [op |-> op, result |-> "running", abs |-> is_absolute(PathOf(directory_path)),
   dry |-> dry, n |-> 0, done |-> 0, skipped |-> 0, failed |-> FALSE,
   clean |-> Clean, confirmed |-> FALSE, after |-> After(last)]

Returned(e, result, n, done, skipped) ==
  [e EXCEPT !.result = result, !.n = n, !.done = done, !.skipped = skipped]

\* An attempt failed or an exception was raised in the running command.
Failed(e) == [e EXCEPT !.failed = TRUE]

\* The command returns: its local variables are gone.
Return ==
  /\ pc' = "idle"
  /\ directory' = NoPath
  /\ dry_run' = FALSE
  /\ sorting_rules' = <<>>
  /\ files_to_organize' = <<>>
  /\ moves' = <<>>
  /\ idx' = 0
  /\ moved_count' = 0
  /\ skipped_count' = 0
  /\ restored_count' = 0
  /\ fails' = 0

locals == << directory, dry_run, sorting_rules, files_to_organize, moves >>
counts == << moved_count, skipped_count, restored_count >>

Perms(S) ==
  {s \in [1..Cardinality(S) -> S] : \A i, j \in 1..Cardinality(S) : s[i] = s[j] => i = j}

\* ---------------------------------------------------------- organize_files
\* The file the loop is at, as the loop names it.
file_name == files_to_organize[idx + 1]
file_path == Join(directory, file_name)
target_folder == find_target_folder(get_file_extension(file_name), sorting_rules)
target_dir == Join(directory, target_folder)
target_file_path == Join(target_dir, file_name)

\* config.json is there and parses: its mapping is the rule set.
load_sorting_rules == config

\* directory.iterdir(), the plain files of it: the files of D, the move log
\* when there is one, and py_sort.log when the working directory is D.
DirFiles(with_py_sort_log) ==
  {n \in Names : fs[<<n>>] # None}
    \cup (IF logFile.kind # "missing" THEN {"py_sort_moves.json"} ELSE {})
    \cup (IF with_py_sort_log THEN {"py_sort.log"} ELSE {})

\* A scan that takes every plain file.
ScanAll(listing) == listing

\* The scan: f.name not in ["py_sort.log", "py_sort_moves.json"].
Scan(listing) == {f \in listing : f \notin LogNames}

\* py_sort.log lies in the working directory, which "." names.
LogInDir(directory_path) == IF directory_path = "." THEN {TRUE} ELSE BOOLEAN

\* organize_files up to the loop: the checks, the rules and the scan.  iterdir
\* yields the files in an order the operating system chooses.
organize_scan(directory_path, dry, with_py_sort_log, order) ==
  /\ pc = "idle"
  /\ clock < MaxRuns
  /\ clock' = clock + 1
  /\ with_py_sort_log \in LogInDir(directory_path)
  /\ order \in Perms(Scan(DirFiles(with_py_sort_log)))
  /\ UNCHANGED << disk, files0, moves, idx, counts, fails >>
  /\ IF order = <<>>
       THEN /\ last' = Returned(Started("organize", directory_path, dry),
                              "nofiles", 0, 0, 0)
            /\ UNCHANGED << pc, directory, dry_run, sorting_rules, files_to_organize >>
       ELSE /\ last' = Started("organize", directory_path, dry)
            /\ pc' = "file"
            /\ directory' = PathOf(directory_path)
            /\ dry_run' = dry
            /\ sorting_rules' = load_sorting_rules
            /\ files_to_organize' = order

\* A collision check that never finds the target.
CollisionNever == FALSE

\* The target is already there: target_file_path.exists().
Collision == PathExists(target_file_path.parts)

\* The dry-run test is missing: a dry run goes on to create and move.
FileBranchNoDry(stat_raises) ==
  IF stat_raises THEN "raise"
  ELSE IF Collision THEN "collision"
  ELSE "real"

\* The dry-run test comes before the collision check.
FileBranchDryFirst(stat_raises) ==
  IF stat_raises THEN "raise"
  ELSE IF dry_run THEN "dry"
  ELSE IF Collision THEN "collision"
  ELSE "real"

\* The collision check is made in a dry run only: a real run moves onto the
\* existing target.
FileBranchRealOverwrites(stat_raises) ==
  IF stat_raises THEN "raise"
  ELSE IF dry_run THEN (IF Collision THEN "collision" ELSE "dry")
  ELSE "real"

\* The way one pass of the loop takes.  stat_raises: file_path.stat() raises,
\* the exception reaches the handler at the loop boundary.
FileBranch(stat_raises) ==
  IF stat_raises THEN "raise"
  ELSE IF Collision THEN "collision"
  ELSE IF dry_run THEN "dry"
  ELSE "real"

\* One pass of the loop up to the first filesystem change: stat, the collision
\* check and the dry-run branch.
organize_file(stat_raises) ==
  /\ pc = "file"
  /\ idx < Len(files_to_organize)
  /\ UNCHANGED << disk, files0, clock, locals, restored_count >>
  /\ stat_raises => fails < MaxFails
  /\ fails' = IF stat_raises THEN fails + 1 ELSE fails
  /\ last' = IF stat_raises THEN Failed(last) ELSE last
  /\ LET branch == FileBranch(stat_raises)
     IN /\ pc' = IF branch = "real" THEN "mkdir" ELSE pc
        /\ idx' = IF branch = "real" THEN idx ELSE idx + 1
        /\ skipped_count' = IF branch \in {"raise", "collision"}
                              THEN skipped_count + 1 ELSE skipped_count
        /\ moved_count' = IF branch = "dry" THEN moved_count + 1 ELSE moved_count

\* create_folder_if_not_exists(target_dir): one pass of its loop.
create_folder_if_not_exists(mkdir_ok) ==
  /\ pc = "mkdir"
  /\ UNCHANGED << fs, logFile, config, files0, clock, locals, idx, counts >>
  /\ IF PathExists(target_dir.parts)
       THEN /\ pc' = "move"
            /\ UNCHANGED << dirs, fails, last >>
       ELSE IF mkdir_ok
         THEN /\ dirs' = dirs \cup {target_folder}
              /\ pc' = "move"
              /\ UNCHANGED << fails, last >>
         ELSE /\ fails < MaxFails
              /\ fails' = fails + 1
              /\ pc' = "mkdir_prompt"
              /\ last' = Failed(last)
              /\ UNCHANGED dirs

Answers == {"y", "n", "?"}

\* prompt_retry: True on 'y', False on 'n', asks again on anything else.
prompt_folder(response) ==
  /\ pc = "mkdir_prompt"
  /\ pc' = CASE response = "y" -> "mkdir"
             [] response = "n" -> "move"
             [] OTHER -> pc
  /\ UNCHANGED << disk, files0, clock, locals, idx, counts, fails, last >>

\* shutil.move(file_path, target_file_path) can succeed here.
MoveCanSucceed == ParentIsDir(target_file_path.parts)

\* One attempt of shutil.move in the retry loop and, when it succeeds, the
\* count and log_move.
move_file(move_ok, w) ==
  /\ pc = "move"
  /\ UNCHANGED << dirs, config, files0, clock, locals, restored_count >>
  /\ last' = IF move_ok /\ MoveCanSucceed /\ w = "ok" THEN last ELSE Failed(last)
  /\ IF move_ok /\ MoveCanSucceed
       THEN /\ fs' = Moved(fs, file_path.parts, target_file_path.parts)
            /\ moved_count' = moved_count + 1
            /\ logFile' = log_move(logFile, clock, file_path, target_file_path, w)
            /\ IF w = "ok" THEN UNCHANGED fails
                           ELSE fails < MaxFails /\ fails' = fails + 1
            /\ idx' = idx + 1
            /\ pc' = "file"
            /\ UNCHANGED skipped_count
       ELSE /\ w = "ok"
            /\ MoveCanSucceed => fails < MaxFails
            /\ fails' = IF MoveCanSucceed THEN fails + 1 ELSE fails
            /\ pc' = "move_prompt"
            /\ UNCHANGED << fs, logFile, idx, moved_count, skipped_count >>

\* A prompt whose 'y' does not lead to another attempt: the file is skipped.
prompt_move_retry_skips(response) ==
  /\ pc = "move_prompt"
  /\ UNCHANGED << disk, files0, clock, locals, moved_count, restored_count, fails,
                  last >>
  /\ CASE response \in {"y", "n"} -> /\ skipped_count' = skipped_count + 1
                                     /\ idx' = idx + 1
                                     /\ pc' = "file"
       [] OTHER -> UNCHANGED << pc, idx, skipped_count >>

\* A declined retry leaves the file uncounted.
prompt_move_uncounted(response) ==
  /\ pc = "move_prompt"
  /\ UNCHANGED << disk, files0, clock, locals, moved_count, restored_count, fails,
                  last, skipped_count >>
  /\ CASE response = "y" -> pc' = "move" /\ UNCHANGED idx
       [] response = "n" -> idx' = idx + 1 /\ pc' = "file"
       [] OTHER -> UNCHANGED << pc, idx >>

prompt_move(response) ==
  /\ pc = "move_prompt"
  /\ UNCHANGED << disk, files0, clock, locals, moved_count, restored_count, fails,
                  last >>
  /\ CASE response = "y" -> pc' = "move" /\ UNCHANGED << idx, skipped_count >>
       [] response = "n" -> /\ skipped_count' = skipped_count + 1
                            /\ idx' = idx + 1
                            /\ pc' = "file"
       [] OTHER -> UNCHANGED << pc, idx, skipped_count >>

\* After the loop: the summary.
organize_summary ==
  /\ pc = "file"
  /\ idx = Len(files_to_organize)
  /\ last' = Returned(last, "summary", Len(files_to_organize), moved_count,
                         skipped_count)
  /\ Return
  /\ UNCHANGED << disk, files0, clock >>

\* ------------------------------------------------------- undo_organization
\* The log parses to a list of objects.
WellFormed(lf) ==
  lf.kind = "list" /\ \A i \in 1..Len(lf.moves) : IsDict(lf.moves[i])

\* undo_organization up to the confirmation prompt: the checks and the load.
undo_load(directory_path) ==
  /\ pc = "idle"
  /\ clock < MaxRuns
  /\ clock' = clock + 1
  /\ UNCHANGED << disk, files0, dry_run, sorting_rules, files_to_organize, idx, counts,
                  fails >>
  /\ LET h == Started("undo", directory_path, FALSE)
     IN CASE logFile.kind = "missing" ->
               /\ last' = Returned(h, "nolog", 0, 0, 0)
               /\ UNCHANGED << pc, directory, moves >>
          [] logFile.kind # "missing" /\ ~WellFormed(logFile) ->
               /\ last' = Returned(h, "badlog", 0, 0, 0)
               /\ UNCHANGED << pc, directory, moves >>
          [] WellFormed(logFile) /\ logFile.moves = <<>> ->
               /\ last' = Returned(h, "emptylog", 0, 0, 0)
               /\ UNCHANGED << pc, directory, moves >>
          [] OTHER ->
               /\ last' = h
               /\ pc' = "confirm"
               /\ directory' = PathOf(directory_path)
               /\ moves' = logFile.moves

Confirmations == {"y", "yes", "n", ""}

\* A prompt that takes 'yes' for 'y', as prompt_retry does.
undo_confirm_takes_yes(confirm) ==
  /\ pc = "confirm"
  /\ UNCHANGED << disk, files0, clock >>
  /\ IF confirm \notin {"y", "yes"}
       THEN /\ last' = Returned(last, "cancelled", Len(moves), 0, 0)
            /\ Return
       ELSE /\ pc' = "record"
            /\ last' = [last EXCEPT !.confirmed = (confirm = "y")]
            /\ UNCHANGED << locals, idx, counts, fails >>

\* The confirmation prompt: anything but 'y' cancels.
undo_confirm(confirm) ==
  /\ pc = "confirm"
  /\ UNCHANGED << disk, files0, clock >>
  /\ IF confirm # "y"
       THEN /\ last' = Returned(last, "cancelled", Len(moves), 0, 0)
            /\ Return
       ELSE /\ pc' = "record"
            /\ last' = [last EXCEPT !.confirmed = (confirm = "y")]
            /\ UNCHANGED << locals, idx, counts, fails >>

\* The record the loop is at: reversed(moves).
move == moves[Len(moves) - idx]
original_path == move.original
new_path == move.new

\* Path(move.get('original', '')) and Path(move.get('new', '')) return.
PathsAreStrings == original_path # NotAString /\ new_path # NotAString

\* Path() raises TypeError for a value that is not a string.  Nothing in
\* undo_organization or main catches it: the process ends with a traceback,
\* the records before this one unprocessed and no summary printed.
undo_raises ==
  /\ pc = "record"
  /\ idx < Len(moves)
  /\ ~PathsAreStrings
  /\ last' = Failed(Returned(last, "traceback", Len(moves), restored_count,
                            skipped_count))
  /\ Return
  /\ UNCHANGED << disk, files0, clock >>

\* The check of the original location is missing.
UndoSkipsNoOccupiedCheck ==
  \/ ~is_absolute(original_path)
  \/ ~is_absolute(new_path)
  \/ ~PathExists(new_path.parts)

\* The record is skipped before any move is attempted.
UndoSkips ==
  \/ ~is_absolute(original_path)
  \/ ~is_absolute(new_path)
  \/ ~PathExists(new_path.parts)
  \/ PathExists(original_path.parts)

\* A skipped record ends the loop: the records before it are never reached.
undo_record_skip_breaks ==
  /\ pc = "record"
  /\ idx < Len(moves)
  /\ PathsAreStrings
  /\ UNCHANGED << disk, files0, clock, locals, moved_count, restored_count, fails,
                  last >>
  /\ IF UndoSkips
       THEN /\ skipped_count' = skipped_count + 1
            /\ idx' = Len(moves)
            /\ UNCHANGED pc
       ELSE /\ pc' = "restore"
            /\ UNCHANGED << idx, skipped_count >>

\* One pass of the undo loop up to the move.  The parent of original_path is
\* the directory itself, which exists: the mkdir branch is not taken.
undo_record ==
  /\ pc = "record"
  /\ idx < Len(moves)
  /\ PathsAreStrings
  /\ UNCHANGED << disk, files0, clock, locals, moved_count, restored_count, fails,
                  last >>
  /\ IF UndoSkips
       THEN /\ skipped_count' = skipped_count + 1
            /\ idx' = idx + 1
            /\ UNCHANGED pc
       ELSE /\ pc' = "restore"
            /\ UNCHANGED << idx, skipped_count >>

\* One attempt of shutil.move(new_path, original_path) in the retry loop.
restore_file(move_ok) ==
  /\ pc = "restore"
  /\ UNCHANGED << dirs, logFile, config, files0, clock, locals, moved_count, skipped_count >>
  /\ last' = IF move_ok THEN last ELSE Failed(last)
  /\ IF move_ok
       THEN /\ fs' = Moved(fs, new_path.parts, original_path.parts)
            /\ restored_count' = restored_count + 1
            /\ idx' = idx + 1
            /\ pc' = "record"
            /\ UNCHANGED fails
       ELSE /\ fails < MaxFails
            /\ fails' = fails + 1
            /\ pc' = "restore_prompt"
            /\ UNCHANGED << fs, idx, restored_count >>

prompt_restore(response) ==
  /\ pc = "restore_prompt"
  /\ UNCHANGED << disk, files0, clock, locals, moved_count, restored_count, fails,
                  last >>
  /\ CASE response = "y" -> pc' = "restore" /\ UNCHANGED << idx, skipped_count >>
       [] response = "n" -> /\ skipped_count' = skipped_count + 1
                            /\ idx' = idx + 1
                            /\ pc' = "record"
       [] OTHER -> UNCHANGED << pc, idx, skipped_count >>

\* An undo that empties the log once it is through.
undo_summary_clears_log ==
  /\ pc = "record"
  /\ idx = Len(moves)
  /\ last' = Returned(last, "summary", Len(moves), restored_count, skipped_count)
  /\ Return
  /\ logFile' = JsonList(<<>>)
  /\ UNCHANGED << fs, dirs, config, files0, clock >>

\* After the loop: "Undo complete".
undo_summary ==
  /\ pc = "record"
  /\ idx = Len(moves)
  /\ last' = Returned(last, "summary", Len(moves), restored_count, skipped_count)
  /\ Return
  /\ UNCHANGED << disk, files0, clock >>

\* ------------------------------------------------------------------- main
Next ==
  \/ /\ pc = "idle"
     /\ \E d \in DirArgs, dry \in BOOLEAN :
          \E l \in LogInDir(d) :
            \E order \in Perms(Scan(DirFiles(l))) :
              organize_scan(d, dry, l, order)
  \/ \E e \in BOOLEAN : organize_file(e)
  \/ \E ok \in BOOLEAN : create_folder_if_not_exists(ok)
  \/ \E r \in Answers : prompt_folder(r)
  \/ \E ok \in BOOLEAN, w \in WriteOutcomes : move_file(ok, w)
  \/ \E r \in Answers : prompt_move(r)
  \/ organize_summary
  \/ \E d \in DirArgs : undo_load(d)
  \/ \E c \in Confirmations : undo_confirm(c)
  \/ undo_record
  \/ \E ok \in BOOLEAN : restore_file(ok)
  \/ \E r \in Answers : prompt_restore(r)
  \/ undo_summary

Spec == Init /\ [][Next]_vars

\* ---------------------------------------------- organize under any mapping
\* The rule mappings a config.json can hold, up to MaxRules items: any
\* category names as keys, in any order, with any lists of extensions.
MaxRules == 2
RuleExts == {".png", ".txt"}
RuleFolders == {"Images", "Documents", "Other"}
RuleItems == [folder : RuleFolders, exts : SUBSET RuleExts]

RuleMappings ==
  UNION {{m \in [1..n -> RuleItems] : \A i, j \in 1..n : m[i].folder = m[j].folder => i = j}
           : n \in 0..MaxRules}

\* D holds plain files only; config.json holds any of the mappings.
InitRules ==
  /\ \E st \in [Names -> {"absent", "root"}] : fs = InitFs(st)
  /\ dirs = {}
  /\ logFile = Missing
  /\ config \in RuleMappings
  /\ clock = 0
  /\ Idle
  /\ last = NoReport
  /\ files0 = {fs[p] : p \in {q \in Paths : fs[q] # None}}

\* Organize runs in which no attempt fails.
NextRules ==
  \/ /\ pc = "idle"
     /\ \E d \in DirArgs, dry \in BOOLEAN :
          \E l \in LogInDir(d) :
            \E order \in Perms(Scan(DirFiles(l))) :
              organize_scan(d, dry, l, order)
  \/ organize_file(FALSE)
  \/ create_folder_if_not_exists(TRUE)
  \/ move_file(TRUE, "ok")
  \/ organize_summary

SpecRules == InitRules /\ [][NextRules]_vars

\* ------------------------------------------------- runs that come to an end
\* A record whose "original" is a number.
NumberRecord(n) == [EarlierRecord(n) EXCEPT !.original = NotAString]

\* The log at the start: as in InitLogs, or with a record among its objects
\* whose path is not a string.
InitLogsAnyRecords(st) ==
  IF \E n \in Names : st[n] = "again"
    THEN {JsonList(<<EarlierRecord("a.PNG")>>),
          JsonList(<<EarlierRecord("a.PNG"), NumberRecord("b.txt")>>),
          JsonList(<<NumberRecord("b.txt"), EarlierRecord("a.PNG")>>)}
    ELSE {Missing, JsonList(<<NumberRecord("b.txt")>>)}

\* The state in which the last command the model follows starts: D as in
\* Init or, where an earlier run has moved a.PNG, with no new a.PNG in D, so
\* that the record of that move can be restored.
InitTermination ==
  /\ \E st \in {t \in [Names -> {"absent", "root", "both", "again"}] :
                   \A n \in Names : t[n] \in InitStates(n)} :
       /\ fs \in {InitFs(st)} \cup
                 (IF st["a.PNG"] = "again"
                    THEN {[InitFs(st) EXCEPT ![<<"a.PNG">>] = None]} ELSE {})
       /\ dirs = {DefaultTarget(n) : n \in {m \in Names : st[m] \in {"both", "again"}}}
       /\ \A c \in dirs : <<c>> \in Paths => fs[<<c>>] = None
       /\ logFile \in InitLogsAnyRecords(st)
  /\ config \in RuleSets
  /\ clock = MaxRuns - 1
  /\ Idle
  /\ last = NoReport
  /\ files0 = {fs[p] : p \in {q \in Paths : fs[q] # None}}

NextTermination == Next \/ undo_raises

\* The interpreter runs a command that has started: every step of it but a
\* prompt is taken.
ProgramStep ==
  \/ \E e \in BOOLEAN : organize_file(e)
  \/ \E ok \in BOOLEAN : create_folder_if_not_exists(ok)
  \/ \E ok \in BOOLEAN, w \in WriteOutcomes : move_file(ok, w)
  \/ organize_summary
  \/ undo_record
  \/ \E ok \in BOOLEAN : restore_file(ok)
  \/ undo_summary
  \/ undo_raises

\* prompt_retry returns False.
Decline == prompt_folder("n") \/ prompt_move("n") \/ prompt_restore("n")

\* The operator does not answer a retry prompt with 'y', or with neither 'y'
\* nor 'n', for ever: where the retried operation keeps failing, the
\* operator declines in the end.
Fairness == WF_vars(ProgramStep) /\ SF_vars(Decline)

SpecTermination == InitTermination /\ [][NextTermination]_vars /\ Fairness

\* ==================================================================== claims
\* Where a file lay before the first command: in D, or in a category folder
\* ("sub": it has always been there).
Origin(id) == IF id[2] = "sub" THEN <<DefaultTarget(id[1]), id[1]>> ELSE <<id[1]>>

Places(id) == {p \in Paths : fs[p] = id}

LogRecords == {i \in 1..Len(logFile.moves) : IsDict(logFile.moves[i])}

UndoReturned == pc = "idle" /\ last.op = "undo" /\ last.result = "summary"
OrganizeReturned == pc = "idle" /\ last.op = "organize" /\ last.result = "summary"

\* C1: a real organize run on a clean directory (plain files only, no category
\* folder, no log) in which every file is moved and logged, followed by a
\* confirmed undo run in which no attempt fails, puts every file back at its
\* original path, whatever path names the directory.
C1_RoundTrip ==
  (UndoReturned /\ ~last.failed /\ last.after.kind = "cleanrun")
    => \A id \in files0 : fs[Origin(id)] = id

\* C2: every record of the move log that a real organize run has appended has
\* an absolute 'original' and an absolute 'new' path.
C2_RecordsAbsolute ==
  \A i \in LogRecords :
    is_absolute(logFile.moves[i].original) /\ is_absolute(logFile.moves[i].new)

\* C3: no data loss.  Whatever commands have run and whatever was answered,
\* every file D held at the start still exists, exactly once, at its original
\* path or at <directory>/<category>/<name>.
C3_NoDataLoss ==
  \A id \in files0 :
    /\ Cardinality(Places(id)) = 1
    /\ \A p \in Places(id) : p = Origin(id) \/ (Len(p) = 2 /\ p[2] = id[1])

\* C3's case: organize and undo have run, a retry prompt was answered, one file
\* is back in D and another still lies in a category folder.
C3_Witness ==
  /\ UndoReturned
  /\ last.done > 0
  /\ last.failed
  /\ \E id \in files0 : id[2] = "root" /\ Origin(id) \notin Places(id)

\* C4: a dry-run organize changes nothing: no step of a dry run, its scan
\* included, changes a file, a folder or the move log.
C4_DryRunChangesNothing ==
  [][(dry_run \/ dry_run') => UNCHANGED << fs, dirs, logFile >>]_vars

\* C4's case: a dry run has returned and reported files it would move.
C4_Witness == OrganizeReturned /\ last.dry /\ last.done > 0

AtCollision ==
  /\ pc = "file"
  /\ idx < Len(files_to_organize)
  /\ PathExists(<<target_folder, file_name>>)

\* C6: when the target <directory>/<category>/<name> exists as the file is
\* processed, no file is overwritten or renamed, the file stays where it is,
\* the log is not written and the file is counted as skipped.
C6_CollisionIsSkipped ==
  [][AtCollision =>
       /\ UNCHANGED << fs, dirs, logFile, moved_count >>
       /\ skipped_count' = skipped_count + 1
       /\ idx' = idx + 1
       /\ pc' = "file"]_vars

\* C6's case: in a real run a file was skipped for a collision; it and the file
\* at its target are both still there.
C6_Witness ==
  /\ pc = "file" /\ ~dry_run /\ ~last.failed
  /\ skipped_count > 0
  /\ \E i \in 1..idx :
       LET n == files_to_organize[i]
           c == find_target_folder(get_file_extension(n), sorting_rules)
       IN fs[<<n>>] = <<n, "root">> /\ fs[<<c, n>>] # None

\* The newest timestamp of the records undo has loaded.
NewestRun ==
  LET ts == {moves[i].timestamp : i \in 1..Len(moves)}
  IN CHOOSE t \in ts : \A u \in ts : u <= t

\* C7: undo reverses the last organize run only: every file a confirmed undo
\* moves back was moved by the most recent run the log holds.  Stated for the
\* logs all of whose records have absolute paths.
C7_UndoOnlyLastRun ==
  [][(/\ pc = "restore"
      /\ restored_count' = restored_count + 1
      /\ \A i \in 1..Len(moves) :
           is_absolute(moves[i].original) /\ is_absolute(moves[i].new))
       => move.timestamp = NewestRun]_vars

\* The undo loop is at a record whose original location is occupied.
AtOccupied ==
  /\ pc = "record"
  /\ idx < Len(moves)
  /\ PathExists(moves[Len(moves) - idx].original.parts)

\* C8: undo never overwrites: a record whose original location is occupied
\* leaves every file where it is and is counted as skipped.
C8_UndoNeverOverwrites ==
  [][AtOccupied =>
       /\ UNCHANGED << fs, dirs, logFile, restored_count >>
       /\ skipped_count' = skipped_count + 1
       /\ idx' = idx + 1
       /\ pc' = "record"]_vars

\* C8's case: undo has skipped a record with absolute paths whose new location
\* holds a file and whose original location holds another one.
C8_Witness ==
  /\ pc = "record"
  /\ skipped_count > 0
  /\ \E i \in (Len(moves) - idx + 1)..Len(moves) :
       /\ is_absolute(moves[i].original) /\ is_absolute(moves[i].new)
       /\ fs[moves[i].original.parts] # None
       /\ fs[moves[i].new.parts] # None
       /\ fs[moves[i].original.parts] # fs[moves[i].new.parts]

InUndoLoop == pc \in {"record", "restore", "restore_prompt"}

\* C9: a confirmed undo processes every record of the log exactly once, as
\* restored or as skipped: the loop has counted every record it has passed, a
\* skipped record does not end it, and the two counts it reports add up to the
\* number of records of the log.
C9_UndoCountsEveryRecord ==
  /\ InUndoLoop =>
       /\ restored_count + skipped_count = idx
       /\ idx <= Len(moves)
       /\ moves = logFile.moves
  /\ UndoReturned =>
       /\ last.done + last.skipped = last.n
       /\ last.n = Len(logFile.moves)

\* C9's case: undo has returned after it skipped a record with a relative path
\* and restored another record.
C9_Witness ==
  /\ UndoReturned
  /\ last.done > 0
  /\ last.skipped > 0
  /\ \E i \in LogRecords : ~is_absolute(logFile.moves[i].original)

InOrganizeLoop == pc \in {"file", "mkdir", "mkdir_prompt", "move", "move_prompt"}

\* C10: a failure on one file never stops an organize run: the loop has
\* counted every file it has passed exactly once, as moved or as skipped, and
\* the counts it reports add up to the number of scanned files.
C10_OrganizeCountsEveryFile ==
  /\ InOrganizeLoop =>
       /\ moved_count + skipped_count = idx
       /\ idx <= Len(files_to_organize)
  /\ OrganizeReturned => last.done + last.skipped = last.n

\* C10's case: a real run over three files has returned after an attempt
\* failed, with a file moved and a file skipped.
C10_Witness ==
  /\ OrganizeReturned /\ ~last.dry
  /\ last.failed
  /\ last.n = 3
  /\ last.done > 0
  /\ last.skipped > 0

\* The record log_move builds for the file the loop is at.
NewRecord ==
  [type |-> "object", timestamp |-> clock, original |-> file_path,
   new |-> target_file_path]

\* The step in which shutil.move succeeds: log_move is called in it.
MoveSucceeds == pc = "move" /\ moved_count' = moved_count + 1

\* C11 as stated: when the log file holds text that is not JSON, logging a move
\* does not raise and leaves the file holding a JSON array of exactly one
\* record, the new move.
C11_CorruptLogReplaced ==
  [][(MoveSucceeds /\ logFile.kind = "notjson") =>
       /\ pc' = "file"
       /\ logFile' = JsonList(<<NewRecord>>)]_vars

\* C11, amended: when the log file holds text that is not JSON, logging a move
\* does not raise, the run goes on with the next file, and either the file
\* holds a JSON array of exactly the new record afterwards, or the write has
\* failed, the failure is reported and the file still holds no JSON.
C11_CorruptLogReplacedUnlessWriteFails ==
  [][(MoveSucceeds /\ logFile.kind = "notjson") =>
       /\ pc' = "file"
       /\ idx' = idx + 1
       /\ \/ logFile' = JsonList(<<NewRecord>>) /\ last' = last
          \/ logFile'.kind = "notjson" /\ last'.failed]_vars

\* C11's case: in the first run two files have been moved and a write of the
\* log has failed on the first; the log holds the record of the second move
\* alone.
C11_Witness ==
  /\ clock = 1 /\ pc = "file" /\ ~dry_run
  /\ moved_count = 2 /\ idx = 2
  /\ fails = 1 /\ last.failed
  /\ logFile.kind = "list" /\ Len(logFile.moves) = 1
  /\ logFile.moves[1].original = Join(directory, files_to_organize[2])

\* The command that runs, or has returned last, is an undo.
UndoCommand == last.op = "undo"

\* An undo right after an undo that restored every record of the log.
SecondUndo == UndoCommand /\ last.after.kind = "fullundo"

\* C12: undo never modifies the move log; a confirmed undo right after an undo
\* that restored every record moves no file: nothing lies at the new location
\* of any record, every record is skipped, the restored count is 0 and the
\* files lie where they lay.
C12_UndoKeepsLogSecondUndoMovesNothing ==
  /\ [][UndoCommand' => logFile' = logFile]_vars
  /\ [][SecondUndo' => (fs' = fs /\ dirs' = dirs)]_vars
  /\ []((SecondUndo /\ InUndoLoop) =>
          /\ restored_count = 0
          /\ pc = "record"
          /\ \A i \in 1..Len(moves) : ~PathExists(moves[i].new.parts))
  /\ []((SecondUndo /\ UndoReturned) =>
          /\ last.done = 0
          /\ last.skipped = last.n)

\* C12's case: a confirmed undo of a log of two records has returned right
\* after an undo that had restored both.
C12_Witness ==
  /\ SecondUndo /\ UndoReturned
  /\ last.n = 2
  /\ Len(logFile.moves) = 2

\* The items of a mapping whose list holds the extension.
Matches(file_extension, rules) ==
  {i \in 1..Len(rules) : file_extension \in rules[i].exts}

\* The category of the first of them in iteration order, "Other" without one.
FirstMatch(file_extension, rules) ==
  IF Matches(file_extension, rules) = {} THEN "Other"
  ELSE rules[CHOOSE i \in Matches(file_extension, rules) :
               \A j \in Matches(file_extension, rules) : i <= j].folder

\* C13: for every extension and rule mapping, find_target_folder returns the
\* first category, in the mapping's iteration order, whose list contains the
\* extension, and "Other" when no list contains it: the folder the loop takes
\* for the file it is at is that category, and so is the folder of every file
\* a run has moved.
C13_FirstMatchingCategory ==
  /\ (InOrganizeLoop /\ idx < Len(files_to_organize)) =>
       target_folder = FirstMatch(get_file_extension(file_name), sorting_rules)
  /\ \A p \in SubPaths :
       fs[p] # None => p[1] = FirstMatch(get_file_extension(fs[p][1]), config)

\* C13's case: the extension of a moved file is in the lists of both items of
\* the mapping, and the file lies in the folder of the first; another moved
\* file, whose extension is in no list, lies in Other.
C13_Witness ==
  /\ Len(config) = 2
  /\ \E p \in SubPaths :
       /\ fs[p] # None
       /\ Matches(get_file_extension(fs[p][1]), config) = {1, 2}
       /\ p[1] = config[1].folder
  /\ \E p \in SubPaths :
       /\ fs[p] # None
       /\ Matches(get_file_extension(fs[p][1]), config) = {}
       /\ p[1] = "Other"

\* The log after one more record has been appended to what log_move loads.
LogWithNewRecord == JsonList(Append(LoadedMoves(logFile), NewRecord))

\* What every step of the retry loop does but the logging: a failed attempt
\* changes nothing and leads to the prompt; the prompt leads to another attempt
\* at the same file, or to the next file with this one left where it is,
\* counted as skipped once and not logged; an attempt that succeeds moves the
\* file and counts it as moved once.
RetryOrSkip ==
  /\ (pc = "move" /\ fs' = fs /\ pc' # pc) =>
       /\ pc' = "move_prompt"
       /\ UNCHANGED << logFile, idx, counts, files_to_organize >>
  /\ (pc = "move_prompt" /\ pc' # pc) =>
       \/ /\ pc' = "move"
          /\ UNCHANGED << fs, logFile, idx, counts, files_to_organize >>
       \/ /\ pc' = "file"
          /\ idx' = idx + 1
          /\ skipped_count' = skipped_count + 1
          /\ UNCHANGED << fs, logFile, moved_count >>
  /\ (pc = "move" /\ fs' # fs) =>
       /\ fs'[file_path.parts] = None
       /\ fs'[target_file_path.parts] = fs[file_path.parts]
       /\ pc' = "file"
       /\ idx' = idx + 1
       /\ moved_count' = moved_count + 1
       /\ UNCHANGED skipped_count

\* At the prompt the operator can have the same move attempted again.
CanRetry ==
  pc = "move_prompt" =>
    ENABLED (Next /\ pc' = "move" /\ UNCHANGED << fs, logFile, idx, counts >>)

\* C14 as stated: after each failed move attempt of organize the operator is
\* asked; on retry the same move is attempted again, on decline the file is
\* left at its path, counted as skipped exactly once and not logged; when an
\* attempt succeeds the file is counted as moved exactly once and exactly one
\* log record is written, however many attempts failed before.
C14_RetryOrSkip ==
  /\ []CanRetry
  /\ [][RetryOrSkip]_vars
  /\ [][(pc = "move" /\ fs' # fs) => logFile' = LogWithNewRecord]_vars

\* C14, amended: the same, but when an attempt succeeds exactly one log record
\* is written unless the write of the log fails: then the failure is reported
\* and the log holds what it held or no JSON at all.
C14_RetryOrSkipUnlessWriteFails ==
  /\ []CanRetry
  /\ [][RetryOrSkip]_vars
  /\ [][(pc = "move" /\ fs' # fs) =>
          \/ logFile' = LogWithNewRecord
          \/ last'.failed /\ logFile' \in {logFile, NotJson}]_vars

\* C14's case: the move of the first file has failed twice, the operator has
\* asked for another attempt each time, and the third attempt has moved the
\* file: it is counted once and the log holds its record alone.
C14_Witness ==
  /\ clock = 1 /\ pc = "file" /\ ~dry_run
  /\ idx = 1 /\ moved_count = 1 /\ skipped_count = 0
  /\ fails = 2
  /\ logFile.kind = "list" /\ Len(logFile.moves) = 1

\* The step in which shutil.move moves the file.
FileMoves == pc = "move" /\ fs' # fs

HasNonObject(lf) ==
  lf.kind = "list" /\ \E i \in 1..Len(lf.moves) : ~IsDict(lf.moves[i])

\* C16: appending a record to a log that is a JSON array with an element that
\* is not an object treats the log as corrupt: whenever a move is logged to
\* such a log and the write succeeds, the rewritten log is an array holding
\* exactly the new record.
C16_NonObjectLogReplaced ==
  [][(FileMoves /\ HasNonObject(logFile) /\ logFile'.kind = "list"
        /\ logFile' # logFile) =>
       logFile' = JsonList(<<NewRecord>>)]_vars

\* C17: when the write of the log fails in the append that follows a
\* successful move, the move is not rolled back (the file lies at its target
\* and is counted as moved), the run goes on with the next file, and the
\* records that were in the log are still in it.
C17_FailedWriteKeepsMoveAndLog ==
  [][(FileMoves /\ logFile' # LogWithNewRecord) =>
       /\ fs'[target_file_path.parts] = fs[file_path.parts]
       /\ moved_count' = moved_count + 1
       /\ pc' = "file" /\ idx' = idx + 1
       /\ (logFile.kind = "list" /\ logFile.moves # <<>>) => logFile' = logFile]_vars

\* C18: when creating the category folder has failed and the operator declines
\* the retry, the file becomes a skip: it stays where it is, is counted as
\* skipped once, is not logged, no move is attempted and no further prompt is
\* raised for it, and the run goes on to the next file.
C18_DeclinedFolderIsSkip ==
  [][(pc = "mkdir_prompt" /\ pc' \notin {"mkdir_prompt", "mkdir"}) =>
       /\ pc' = "file"
       /\ idx' = idx + 1
       /\ skipped_count' = skipped_count + 1
       /\ UNCHANGED << fs, logFile, moved_count >>]_vars

\* C19: py_sort_moves.json and py_sort.log, lying directly in the organized
\* directory, are never moved, counted or logged by an organize run, real or
\* dry: no run has either among the files it goes through, and no record the
\* log holds names either; and once the move log is in the directory, no
\* command takes it away.
C19_LogFilesAreNotOrganized ==
  /\ [](\A i \in 1..Len(files_to_organize) : files_to_organize[i] \notin LogNames)
  /\ [](\A i \in LogRecords :
          \A k \in 1..Len(logFile.moves[i].original.parts) :
            logFile.moves[i].original.parts[k] \notin LogNames)
  /\ [][logFile.kind # "missing" => logFile'.kind # "missing"]_vars

\* C19's case: a real run on ".", the working directory, in which py_sort.log
\* lies, has moved a file while the move log written by an earlier run was in
\* the directory.
C19_Witness ==
  /\ pc = "file" /\ ~dry_run
  /\ directory = PathOf(".")
  /\ clock = 2
  /\ moved_count = 1
  /\ logFile.kind = "list" /\ Len(logFile.moves) = 2
  /\ logFile.moves[1].timestamp = 1
  /\ logFile.moves[2].timestamp = 2

\* What undo requires of the log: it is there and holds a JSON array of
\* objects that is not empty.
LogReady ==
  /\ logFile.kind = "list"
  /\ logFile.moves # <<>>
  /\ \A i \in 1..Len(logFile.moves) : logFile.moves[i].type = "object"

\* C20: undo mutates nothing unless all its preconditions hold.  When the log
\* is missing, is not a JSON array of objects or is an empty array, undo
\* returns at once, and as long as the operator has not answered 'y' it gets
\* no further than the prompt: in both cases no file is moved, no directory
\* created and the log left as it is.  The loop over the records is entered
\* only with such a log and after a 'y'.
C20_UndoNeedsItsPreconditions ==
  /\ [][(UndoCommand' /\ ~LogReady) =>
          (pc' = "idle" /\ UNCHANGED << fs, dirs, logFile >>)]_vars
  /\ [][(UndoCommand' /\ ~last'.confirmed) =>
          (pc' \in {"idle", "confirm"} /\ UNCHANGED << fs, dirs, logFile >>)]_vars
  /\ []((UndoCommand /\ pc # "idle") => LogReady)
  /\ [](InUndoLoop => last.confirmed)

\* C20's case: an undo has been cancelled at the prompt while a record of the
\* log could have been restored: its file lies at the new location and the
\* original location is free.
C20_Witness ==
  /\ pc = "idle" /\ UndoCommand
  /\ last.result = "cancelled"
  /\ \E i \in LogRecords :
       /\ is_absolute(logFile.moves[i].original)
       /\ PathExists(logFile.moves[i].new.parts)
       /\ ~PathExists(logFile.moves[i].original.parts)

\* C21: provided that at every retry prompt the operator declines in the end
\* or the retried operation succeeds in the end, every organize run over a
\* list of files that is not empty and every confirmed undo run comes to its
\* end: it has gone through the whole list of files, or through every record
\* of the log, whatever the records hold, and has printed the summary with the
\* final counts.
C21_RunsTerminate ==
  \A k \in 1..MaxRuns :
    /\ (clock = k /\ InOrganizeLoop) ~>
         (clock = k /\ OrganizeReturned /\ last.done + last.skipped = last.n)
    /\ (clock = k /\ InUndoLoop) ~>
         (clock = k /\ UndoReturned /\ last.done + last.skipped = last.n)

====
